---- MODULE Spec2Model ----
(***************************************************************************)
(* A model of the health card of health-stats.js: the HealthStats class    *)
(* (loadData, checkDataFreshness, validateData, showError, formatTime,     *)
(* renderStats) and the page events that drive it (DOMContentLoaded, the   *)
(* Retry button, the settling of fetch() and of response.json()).          *)
(*                                                                         *)
(* Conventions.                                                            *)
(*  - A JavaScript value is a record with a tag t: undefined, null, a      *)
(*    number, a string or an object (a function from its keys to values).  *)
(*  - Time is in milliseconds, counted from 2024-01-01T00:00:00Z (the      *)
(*    instant Date.parse gives 1704067200000 for), so that the values fit  *)
(*    TLC's integers; only differences of instants are ever used.          *)
(*  - A duration field (hours, a fraction) holds thousandths of an hour.   *)
(***************************************************************************)
EXTENDS Integers, Sequences, FiniteSets, TLC

\* ------------------------------------------------------------ bounds
\* The number of loadData calls a behaviour may issue.
MaxLoads == 3
\* The number of clock steps a behaviour may take.
MaxTicks == 1
\* The number of times renderStats is called on one snapshot.
MaxRenders == 2

\* ------------------------------------------------------------ constants
maxDataAgeHours == 48
MsPerHour == 3600000
\* One clock step: 0.1 hour.
TickMs == MsPerHour \div 10

\* ------------------------------------------------------------ JavaScript values
Undefined == [t |-> "undefined"]
Null == [t |-> "null"]
Num(n) == [t |-> "number", n |-> n]
Str(s) == [t |-> "string", s |-> s]
Obj(f) == [t |-> "object", f |-> f]

\* x == null (true of null and of undefined)
IsNullish(v) == v.t \in {"undefined", "null"}

\* !v
IsFalsy(v) ==
  \/ IsNullish(v)
  \/ v.t = "number" /\ v.n = 0
  \/ v.t = "string" /\ v.s = ""

\* v?.key : undefined for a nullish v, for a primitive and for a missing key
OptGet(v, key) ==
  IF v.t = "object" /\ key \in DOMAIN v.f THEN v.f[key] ELSE Undefined

\* v.key throws a TypeError exactly when v is null or undefined
GetThrows(v) == IsNullish(v)

\* a || {}
OrEmpty(v) == IF IsFalsy(v) THEN Obj(<<>>) ELSE v

\* A message: a template literal, and the strings and the numbers
\* interpolated into it, in order.
Msg(fmt, strs, nums) == [fmt |-> fmt, strs |-> strs, nums |-> nums]

\* ------------------------------------------------------------ Date
\* new Date(s).getTime() for the timestamp strings of the model: the
\* milliseconds from 2024-01-01T00:00:00Z, or NaN for a string that is no date.
NaNDate == [nan |-> TRUE, ms |-> 0]
Instant(ms) == [nan |-> FALSE, ms |-> ms]
DateParse(s) ==
  CASE s = "2023-12-31T23:54:00.000Z" -> Instant(0 - 360000)
    [] s = "2023-12-31T23:59:59.999Z" -> Instant(0 - 1)
    [] s = "2024-01-01T00:00:00.000Z" -> Instant(0)
    [] s = "2024-01-01T00:00:00.001Z" -> Instant(1)
    [] s = "2024-01-01T00:06:00.000Z" -> Instant(360000)
    [] s = "2024-01-01T00:12:00.000Z" -> Instant(720000)
    [] s = "2024-01-02T12:00:00.000Z" -> Instant(129600000)
    [] s = "2024-01-03T00:06:00.001Z" -> Instant(173160001)
    [] s = "2024-01-04T00:00:00.000Z" -> Instant(259200000)
    [] s = "2024-01-20T00:00:00.000Z" -> Instant(1641600000)
    [] OTHER -> NaNDate

\* Math.round(a / b) for b > 0: the nearest integer, a half rounding up.
RoundDiv(a, b) == (a + (b \div 2)) \div b

\* ------------------------------------------------------------ checkDataFreshness
\* data.lastUpdated throws when data is null.
checkDataFreshnessThrows(data) == GetThrows(data)

\* A variant of NoTimestampResult that fails open.
NoTimestampFresh ==
  [isFresh |-> TRUE,
   message |-> Msg("No timestamp found in data", <<>>, <<>>),
   hoursSinceUpdate |-> Null]

\* What checkDataFreshness returns for a falsy data.lastUpdated.
NoTimestampResult ==
  [isFresh |-> FALSE,
   message |-> Msg("No timestamp found in data", <<>>, <<>>),
   hoursSinceUpdate |-> Null]

\* A variant of WithinMaxAge with the comparison strict.
WithinMaxAgeStrict(age) == age < maxDataAgeHours * MsPerHour

\* A variant of WithinMaxAge that refuses a timestamp in the future.
WithinMaxAgeNonNegative(age) == age >= 0 /\ age <= maxDataAgeHours * MsPerHour

\* hoursSinceUpdate <= this.maxDataAgeHours, for hoursSinceUpdate the age in
\* milliseconds divided by (1000 * 60 * 60): the quotient of an integer below
\* 2^53 by 3600000 is at most 48 exactly when the integer is at most 48 * 3600000.
WithinMaxAge(age) == age <= maxDataAgeHours * MsPerHour

checkDataFreshness(data, nowUtc) ==
  LET lastUpdated == OptGet(data, "lastUpdated")
      \* lastUpdated is a string whenever it is present (spec.md, section 3)
      lastUpdate == IF lastUpdated.t = "string" THEN DateParse(lastUpdated.s) ELSE NaNDate
      age == nowUtc - lastUpdate.ms
      isFresh == WithinMaxAge(age)
      rounded == RoundDiv(age, MsPerHour)
  IN  IF IsFalsy(lastUpdated)
      THEN NoTimestampResult
      ELSE IF lastUpdate.nan
      THEN [isFresh |-> FALSE,
            message |-> Msg("Invalid timestamp: ${data.lastUpdated}", <<lastUpdated.s>>, <<>>),
            hoursSinceUpdate |-> Null]
      ELSE [isFresh |-> isFresh,
            message |-> IF isFresh
                        THEN Msg("Data is ${Math.round(hoursSinceUpdate)} hours old", <<>>, <<rounded>>)
                        ELSE Msg("Data is ${Math.round(hoursSinceUpdate)} hours old (max: ${this.maxDataAgeHours})",
                                 <<>>, <<rounded, maxDataAgeHours>>),
            hoursSinceUpdate |-> Num(rounded)]

\* ------------------------------------------------------------ validateData
\* if (c) availableData.push(name)
PushIf(c, name) == IF c THEN <<name>> ELSE <<>>

\* A variant of validateData that takes the sleep group as available when it
\* has a duration, whatever its score.
validateDataByDuration(data) ==
  LET dailyStats == OrEmpty(OptGet(data, "dailyStats"))
      hasSleep == ~IsNullish(OptGet(OptGet(dailyStats, "sleep"), "duration"))
      hasHeartRate == ~IsNullish(OptGet(OptGet(dailyStats, "heartRate"), "resting"))
      hasActivity == ~IsNullish(OptGet(OptGet(dailyStats, "activity"), "steps"))
      hasEnergy == ~IsNullish(OptGet(OptGet(dailyStats, "energy"), "score"))
      availableData == PushIf(hasSleep, "sleep") \o PushIf(hasHeartRate, "heart rate")
                       \o PushIf(hasActivity, "activity") \o PushIf(hasEnergy, "energy")
      isValid == Len(availableData) > 0
  IN  [isValid |-> isValid,
       message |-> IF isValid
                   THEN Msg("Available data: ${availableData.join(', ')}", availableData, <<>>)
                   ELSE Msg("No valid health metrics found in data", <<>>, <<>>),
       availableData |-> availableData]

validateData(data) ==
  LET dailyStats == OrEmpty(OptGet(data, "dailyStats"))
      hasSleep == ~IsNullish(OptGet(OptGet(dailyStats, "sleep"), "score"))
      hasHeartRate == ~IsNullish(OptGet(OptGet(dailyStats, "heartRate"), "resting"))
      hasActivity == ~IsNullish(OptGet(OptGet(dailyStats, "activity"), "steps"))
      hasEnergy == ~IsNullish(OptGet(OptGet(dailyStats, "energy"), "score"))
      availableData == PushIf(hasSleep, "sleep") \o PushIf(hasHeartRate, "heart rate")
                       \o PushIf(hasActivity, "activity") \o PushIf(hasEnergy, "energy")
      isValid == Len(availableData) > 0
  IN  [isValid |-> isValid,
       message |-> IF isValid
                   THEN Msg("Available data: ${availableData.join(', ')}", availableData, <<>>)
                   ELSE Msg("No valid health metrics found in data", <<>>, <<>>),
       availableData |-> availableData]

\* ------------------------------------------------------------ quality labels
\* A variant of getSleepQuality with the bound of Good exclusive.
getSleepQualityExclusive(score) ==
  IF score >= 80 THEN [text |-> "Excellent", color |-> "#10b981"]
  ELSE IF score > 70 THEN [text |-> "Good", color |-> "#3b82f6"]
  ELSE IF score >= 60 THEN [text |-> "Fair", color |-> "#f59e0b"]
  ELSE [text |-> "Poor", color |-> "#ef4444"]

getSleepQuality(score) ==
  IF score >= 80 THEN [text |-> "Excellent", color |-> "#10b981"]
  ELSE IF score >= 70 THEN [text |-> "Good", color |-> "#3b82f6"]
  ELSE IF score >= 60 THEN [text |-> "Fair", color |-> "#f59e0b"]
  ELSE [text |-> "Poor", color |-> "#ef4444"]

getEnergyLevel(score) ==
  IF score >= 80 THEN [text |-> "High Energy", color |-> "#10b981"]
  ELSE IF score >= 70 THEN [text |-> "Good", color |-> "#3b82f6"]
  ELSE IF score >= 60 THEN [text |-> "Moderate", color |-> "#f59e0b"]
  ELSE [text |-> "Low", color |-> "#ef4444"]

\* A variant of getHeartRateStatus with the bound of Athletic inclusive.
getHeartRateStatusInclusive(resting) ==
  IF resting <= 60 THEN [text |-> "Athletic", color |-> "#10b981"]
  ELSE IF resting <= 70 THEN [text |-> "Excellent", color |-> "#3b82f6"]
  ELSE IF resting <= 80 THEN [text |-> "Good", color |-> "#f59e0b"]
  ELSE [text |-> "Above Average", color |-> "#ef4444"]

getHeartRateStatus(resting) ==
  IF resting < 60 THEN [text |-> "Athletic", color |-> "#10b981"]
  ELSE IF resting <= 70 THEN [text |-> "Excellent", color |-> "#3b82f6"]
  ELSE IF resting <= 80 THEN [text |-> "Good", color |-> "#f59e0b"]
  ELSE [text |-> "Above Average", color |-> "#ef4444"]

\* A variant of getStressLevel with the bound of Low exclusive.
getStressLevelExclusive(average) ==
  IF average <= 25 THEN [text |-> "Very Low", color |-> "#10b981"]
  ELSE IF average < 50 THEN [text |-> "Low", color |-> "#3b82f6"]
  ELSE IF average <= 75 THEN [text |-> "Moderate", color |-> "#f59e0b"]
  ELSE [text |-> "High", color |-> "#ef4444"]

getStressLevel(average) ==
  IF average <= 25 THEN [text |-> "Very Low", color |-> "#10b981"]
  ELSE IF average <= 50 THEN [text |-> "Low", color |-> "#3b82f6"]
  ELSE IF average <= 75 THEN [text |-> "Moderate", color |-> "#f59e0b"]
  ELSE [text |-> "High", color |-> "#ef4444"]

\* ------------------------------------------------------------ formatTime
\* The exponent of h as a binary floating-point number: the k with
\* 2^k <= h < 2^(k+1), for h >= 1.
RECURSIVE Exponent(_)
Exponent(h) == IF h < 2 THEN 0 ELSE 1 + Exponent(h \div 2)

\* (hours - h) * 60 is computed in binary floating point (IEEE 754 doubles).
\* A number of thousandths is not a double in general; hours is the double
\* nearest to it, hours - h is exact, and the product is rounded again. For a
\* fraction whose sixtieths fall on a half (25, 75, 125, ... thousandths) the
\* product is either the half itself or the double just below it. These are
\* the fractions for which it is below, by the exponent of hours; the
\* pattern has period 4 in the exponent, and for hours below 1 there is none.
BelowHalf(h) ==
  IF h = 0 THEN {}
  ELSE IF h = 1 THEN {25, 75, 275, 325, 525, 775}
  ELSE CASE Exponent(h) % 4 = 1 -> {25, 175, 275, 425, 525, 675, 775, 925}
         [] Exponent(h) % 4 = 2 -> {175, 225, 425, 475, 675, 725, 925, 975}
         [] Exponent(h) % 4 = 3 -> {75, 225, 325, 475, 575, 725, 825, 975}
         [] Exponent(h) % 4 = 0 -> {25, 75, 275, 325, 525, 575, 775, 825}

\* `${h}h ${m}m` as the pair of numbers printed; nan when both print as NaN.
\* hours is in thousandths of an hour: Math.floor(hours) is the whole part,
\* Math.round((hours - h) * 60) the sixtieths of the rest: a half rounds up,
\* and a product that floating point leaves just below the half rounds down.
\* formatTime(undefined) gives "NaNh NaNm", formatTime(null) gives "0h 0m".
formatTime(hours) ==
  IF hours.t = "undefined" THEN [nan |-> TRUE, h |-> 0, m |-> 0]
  ELSE IF hours.t = "null" THEN [nan |-> FALSE, h |-> 0, m |-> 0]
  ELSE LET h == hours.n \div 1000
           rest == hours.n - h * 1000
           m == IF rest \in BelowHalf(h)
                THEN RoundDiv(rest * 60, 1000) - 1
                ELSE RoundDiv(rest * 60, 1000)
       IN  [nan |-> FALSE, h |-> h, m |-> m]

\* ------------------------------------------------------------ state
VARIABLES
  ready,        \* DOMContentLoaded has fired: window.healthStatsInstance exists
  hasContainer, \* the page has an element with id health-stats-card
  innerHTML,    \* container.innerHTML
  styleDisplay, \* container.style.display
  calls,        \* the loadData calls, in the order they were issued
  now,          \* Date.now()
  lastWriter,   \* the call that assigned container.innerHTML last (0: none)
  checkedAt,    \* Date.now() when that call ran its checks
  checkedBody,  \* the body that call had parsed (undefined: none)
  probe,        \* a function applied on its own: the function and its arguments
  result,       \* what it returned
  probeRuntime  \* and the settings the runtime had at its latest call (none: no call)

vars == <<ready, hasContainer, innerHTML, styleDisplay, calls, now, lastWriter,
          checkedAt, checkedBody, probe, result, probeRuntime>>

\* ------------------------------------------------------------ renderStats
\* A part of the template that a condition leaves out, or puts in.
Omitted == [shown |-> FALSE]
Shown(x) == [shown |-> TRUE, v |-> x]

\* ------------------------------------------------------------ the runtime
\* n.toLocaleString() names no locale, so it formats with the default locale
\* of the runtime, and date.toLocaleDateString('en-US', ...) names no time
\* zone, so it prints in the time zone of the runtime. Both are read at each
\* call of renderStats, and a runtime can change either while the page is
\* open.
\*
\* Of a locale the model keeps what decides where the digits of a whole
\* number are broken, its grouping: the size of the group of digits on the
\* right (primary, 0 for a locale that breaks no digits), the size of the
\* groups to its left (secondary), and how many digits at least must stand
\* to the left of the first separator (minimumGroupingDigits).
Grouping(tag, primary, secondary, minimumGroupingDigits) ==
  [tag |-> tag, primary |-> primary, secondary |-> secondary,
   minimumGroupingDigits |-> minimumGroupingDigits]

\* One locale for each grouping: threes (en-US, and with other separators
\* or digits de-DE, fr-FR, ar-EG), threes from five digits on (es-ES,
\* pl-PL), threes from six digits on (ee-GH), a three and then twos (hi-IN,
\* en-IN), twos (tok), and none (en-US-u-va-posix).
Locales ==
  { Grouping("en-US", 3, 3, 1), Grouping("es-ES", 3, 3, 2), Grouping("ee-GH", 3, 3, 3),
    Grouping("hi-IN", 3, 2, 1), Grouping("tok", 2, 2, 1),
    Grouping("en-US-u-va-posix", 0, 0, 1) }

\* Of a time zone the model keeps the minutes its clocks are ahead of UTC in
\* the weeks the dates of the model lie in (December 2023 and January 2024,
\* and January 1970).
TimeZone(tag, offset) == [tag |-> tag, offset |-> offset]
TimeZones ==
  { TimeZone("UTC", 0), TimeZone("America/Los_Angeles", 0 - 480),
    TimeZone("Europe/Berlin", 60), TimeZone("Asia/Kolkata", 330),
    TimeZone("Asia/Tokyo", 540) }

\* The settings of a runtime that renderStats reads.
Runtimes == [locale : Locales, timeZone : TimeZones]
NoRuntime == [locale |-> Grouping("none", 0, 0, 1), timeZone |-> TimeZone("none", 0)]

\* The digits of n in groups of size digits, from the right, each group as
\* the number it reads as.
RECURSIVE GroupsOf(_, _)
GroupsOf(n, size) ==
  IF n < 10 ^ size THEN <<n>>
  ELSE GroupsOf(n \div (10 ^ size), size) \o <<n % (10 ^ size)>>

\* n.toLocaleString(), for a whole n >= 0: the groups of digits that the
\* default locale prints, whatever its digits and its separator.
toLocaleString(n, locale) ==
  IF locale.primary = 0
     \/ n < 10 ^ (locale.primary + locale.minimumGroupingDigits - 1)
  THEN <<n>>
  ELSE GroupsOf(n \div (10 ^ locale.primary), locale.secondary)
         \o <<n % (10 ^ locale.primary)>>

\* The month and the day of the month of a day counted from 1970-01-01, in
\* the Gregorian calendar.
MonthAndDay(days) ==
  LET z == days + 719468
      doe == z % 146097
      yoe == (doe - doe \div 1460 + doe \div 36524 - doe \div 146096) \div 365
      doy == doe - (365 * yoe + yoe \div 4 - yoe \div 100)
      mp == (5 * doy + 2) \div 153
  IN  [month |-> IF mp < 10 THEN mp + 3 ELSE mp - 9,
       day |-> doy - (153 * mp + 2) \div 5 + 1]

MonthNames ==
  <<"Jan", "Feb", "Mar", "Apr", "May", "Jun", "Jul", "Aug", "Sep", "Oct", "Nov", "Dec">>

\* new Date(lastUpdated), to the minute: the minutes from
\* 2024-01-01T00:00:00Z to the instant, rounded down. new Date(undefined) and
\* new Date of a string that is no date are Invalid Date; new Date(null) is
\* 1970-01-01T00:00:00Z, 19723 days before, and new Date(n) is n
\* milliseconds after that.
NewDateMinutes(lastUpdated) ==
  IF lastUpdated.t = "string"
  THEN IF DateParse(lastUpdated.s).nan THEN [nan |-> TRUE, min |-> 0]
       ELSE [nan |-> FALSE, min |-> DateParse(lastUpdated.s).ms \div 60000]
  ELSE IF lastUpdated.t = "null" THEN [nan |-> FALSE, min |-> 0 - 19723 * 1440]
  ELSE IF lastUpdated.t = "number"
  THEN [nan |-> FALSE, min |-> lastUpdated.n \div 60000 - 19723 * 1440]
  ELSE [nan |-> TRUE, min |-> 0]

\* date.toLocaleDateString('en-US', { month: 'short', day: 'numeric',
\* hour: '2-digit', minute: '2-digit' }): "Jan 2, 05:30 PM" in the time zone
\* of the runtime, "Invalid Date" for an invalid date.
toLocaleDateString(date, timeZone) ==
  IF date.nan THEN [invalid |-> TRUE]
  ELSE LET local == date.min + timeZone.offset
           civil == MonthAndDay(19723 + local \div 1440)
           hour == (local % 1440) \div 60
       IN  [invalid |-> FALSE,
            month |-> MonthNames[civil.month],
            day |-> civil.day,
            hour |-> IF hour % 12 = 0 THEN 12 ELSE hour % 12,
            minute |-> local % 60,
            dayPeriod |-> IF hour < 12 THEN "AM" ELSE "PM"]

\* const { dailyStats, weeklyTrends, lastUpdated } = data throws on null.
renderStatsThrows(data) == GetThrows(data)

\* A variant of CardShown that tests the gating field for truthiness.
CardShownTruthy(dailyStats, group, field) ==
  ~IsFalsy(OptGet(OptGet(dailyStats, group), field))

\* const hasSleep = dailyStats?.sleep?.score != null, and the four like it:
\* whether the card of a group is in the template.
CardShown(dailyStats, group, field) ==
  ~IsNullish(OptGet(OptGet(dailyStats, group), field))

\* A variant of TrendShown that tests the average for truthiness.
TrendShownTruthy(weeklyTrends, key) == ~IsFalsy(OptGet(weeklyTrends, key))

\* weeklyTrends.averageSleepScore != null, and the four like it: whether the
\* item of an average is in the weekly block.
TrendShown(weeklyTrends, key) == ~IsNullish(OptGet(weeklyTrends, key))

\* The template literal of renderStats: what it assigns to innerHTML.
renderTemplate(data, runtime) ==
  LET dailyStats == OptGet(data, "dailyStats")
      weeklyTrends == OptGet(data, "weeklyTrends")
      lastUpdated == OptGet(data, "lastUpdated")
      sleep == OptGet(dailyStats, "sleep")
      energy == OptGet(dailyStats, "energy")
      heartRate == OptGet(dailyStats, "heartRate")
      activity == OptGet(dailyStats, "activity")
      stress == OptGet(dailyStats, "stress")
      hasSleep == CardShown(dailyStats, "sleep", "score")
      hasEnergy == CardShown(dailyStats, "energy", "score")
      hasHeartRate == CardShown(dailyStats, "heartRate", "resting")
      hasActivity == CardShown(dailyStats, "activity", "steps")
      hasStress == CardShown(dailyStats, "stress", "average")
      Trend(key) == IF TrendShown(weeklyTrends, key)
                    THEN Shown(OptGet(weeklyTrends, key)) ELSE Omitted
      If(v) == IF IsFalsy(v) THEN Omitted ELSE Shown(v)
  IN  [view |-> "stats",
       updateDate |-> toLocaleDateString(NewDateMinutes(lastUpdated), runtime.timeZone),
       sleep |-> IF hasSleep
                 THEN Shown([value |-> OptGet(sleep, "score"),
                             quality |-> getSleepQuality(OptGet(sleep, "score").n),
                             duration |-> formatTime(OptGet(sleep, "duration")),
                             detail |-> IF ~IsNullish(OptGet(sleep, "deepSleep"))
                                           /\ ~IsNullish(OptGet(sleep, "remSleep"))
                                        THEN Shown([deep |-> formatTime(OptGet(sleep, "deepSleep")),
                                                    rem |-> formatTime(OptGet(sleep, "remSleep"))])
                                        ELSE Omitted])
                 ELSE Omitted,
       energy |-> IF hasEnergy
                  THEN Shown([value |-> OptGet(energy, "score"),
                              quality |-> getEnergyLevel(OptGet(energy, "score").n)])
                  ELSE Omitted,
       heartRate |-> IF hasHeartRate
                     THEN Shown([value |-> OptGet(heartRate, "resting"),
                                 quality |-> getHeartRateStatus(OptGet(heartRate, "resting").n),
                                 average |-> If(OptGet(heartRate, "average"))])
                     ELSE Omitted,
       activity |-> IF hasActivity
                    THEN Shown([value |-> toLocaleString(OptGet(activity, "steps").n, runtime.locale),
                                activeMinutes |-> If(OptGet(activity, "activeMinutes")),
                                calories |-> If(OptGet(activity, "calories"))])
                    ELSE Omitted,
       stress |-> IF hasStress
                  THEN Shown([value |-> OptGet(stress, "average"),
                              quality |-> getStressLevel(OptGet(stress, "average").n)])
                  ELSE Omitted,
       trends |-> IF ~IsFalsy(weeklyTrends)
                  THEN Shown([averageSleepScore |-> Trend("averageSleepScore"),
                              averageEnergyScore |-> Trend("averageEnergyScore"),
                              averageSleepDuration |->
                                IF TrendShown(weeklyTrends, "averageSleepDuration")
                                THEN Shown(formatTime(OptGet(weeklyTrends, "averageSleepDuration")))
                                ELSE Omitted,
                              averageRestingHR |-> Trend("averageRestingHR"),
                              averageSteps |->
                                IF TrendShown(weeklyTrends, "averageSteps")
                                THEN Shown(toLocaleString(OptGet(weeklyTrends, "averageSteps").n, runtime.locale))
                                ELSE Omitted])
                  ELSE Omitted,
       retry |-> FALSE]

\* ------------------------------------------------------------ effects
\* What a piece of code did: whether it threw (and what), the values it
\* assigned to container.innerHTML and to container.style.display, the
\* console levels it logged at, and the terminal states it reached.
NoError == Msg("", <<>>, <<>>)
Skip == [threw |-> FALSE, error |-> NoError, html |-> <<>>, style |-> <<>>,
         logs |-> <<>>, path |-> <<>>]
Throw(error) == [Skip EXCEPT !.threw = TRUE, !.error = error]
Console(level) == [Skip EXCEPT !.logs = <<level>>]
Reach(state) == [Skip EXCEPT !.path = <<state>>]
\* a; b
Then(a, b) ==
  IF a.threw THEN a
  ELSE [threw |-> b.threw, error |-> b.error, html |-> a.html \o b.html,
        style |-> a.style \o b.style, logs |-> a.logs \o b.logs,
        path |-> a.path \o b.path]
\* try { a } catch (error) { handler(error) }
Caught(a, handled) == Then([a EXCEPT !.threw = FALSE, !.error = NoError], handled)

\* ------------------------------------------------------------ showError, hideHealthStats
ErrorView(title, message) ==
  [view |-> "error", title |-> title, message |-> message, retry |-> TRUE]

\* A variant of showError without the guard on the container.
showErrorUnguarded(title, message, container) ==
  IF ~container THEN Throw(Msg("Cannot set properties of null (setting 'innerHTML')", <<>>, <<>>))
  ELSE [Skip EXCEPT !.html = <<ErrorView(title, message)>>, !.style = <<"block">>]

\* A variant of showError without the assignment to style.display.
showErrorNoDisplay(title, message, container) ==
  IF ~container THEN Skip
  ELSE [Skip EXCEPT !.html = <<ErrorView(title, message)>>]

showError(title, message, container) ==
  IF ~container THEN Skip
  ELSE [Skip EXCEPT !.html = <<ErrorView(title, message)>>, !.style = <<"block">>]

hideHealthStats(container) ==
  IF container THEN [Skip EXCEPT !.style = <<"none">>] ELSE Skip

\* ------------------------------------------------------------ renderStats
SetNullInnerHTML == Msg("Cannot set properties of null (setting 'innerHTML')", <<>>, <<>>)
ReadNullProperty(key) == Msg("Cannot read properties of null (reading '${key}')", <<key>>, <<>>)

\* A variant of renderStats that adds its template to what the container
\* holds (innerHTML +=) instead of replacing it.
renderStatsAppend(data, container, runtime) ==
  IF renderStatsThrows(data)
  THEN Throw(Msg("Cannot destructure property 'dailyStats' of 'data' as it is null.", <<>>, <<>>))
  ELSE IF ~container THEN Throw(SetNullInnerHTML)
  ELSE [Skip EXCEPT !.html = <<[view |-> "stats", retry |-> FALSE, before |-> innerHTML,
                                appended |-> renderTemplate(data, runtime)]>>]

\* renderStats(data): it reads data and, through toLocaleString() and
\* toLocaleDateString(), the settings of the runtime; it assigns
\* this.container.innerHTML.
renderStats(data, container, runtime) ==
  IF renderStatsThrows(data)
  THEN Throw(Msg("Cannot destructure property 'dailyStats' of 'data' as it is null.", <<>>, <<>>))
  ELSE IF ~container THEN Throw(SetNullInnerHTML)
  ELSE [Skip EXCEPT !.html = <<renderTemplate(data, runtime)>>]

\* ------------------------------------------------------------ loadData
\* A variant of loadDataCatch that hides the card, as the earlier version of
\* loadData did (this.hideHealthStats() in its catch).
loadDataCatchHide(error, container) ==
  Then(Console("error"), Then(hideHealthStats(container), Reach("LoadFailure")))

\* A variant of loadDataCatch that logs the error and throws it again.
loadDataCatchRethrow(error, container) ==
  Then(Console("error"), Throw(error))

\* catch (error) { console.error(...); this.showError('Failed to load', error.message) }
loadDataCatch(error, container) ==
  Then(Console("error"),
       Then(showError("Failed to load", error, container), Reach("LoadFailure")))

\* if (!response.ok) throw new Error(`HTTP ${response.status}: Failed to load health data`)
HttpError(status) == Msg("HTTP ${response.status}: Failed to load health data", <<>>, <<status>>)

\* A variant of loadDataChecks without the return after the outdated notice.
loadDataChecksFallThrough(data, nowUtc, container, runtime) ==
  IF checkDataFreshnessThrows(data) THEN Throw(ReadNullProperty("lastUpdated"))
  ELSE LET freshnessCheck == checkDataFreshness(data, nowUtc)
           validationResult == validateData(data)
           stale == IF ~freshnessCheck.isFresh
                    THEN Then(Console("warn"),
                              Then(showError("Data is outdated", freshnessCheck.message, container),
                                   Reach("Stale")))
                    ELSE Skip
       IN  IF ~validationResult.isValid
           THEN Then(stale,
                     Then(Console("warn"),
                          Then(showError("No data available", validationResult.message, container),
                               Reach("Invalid"))))
           ELSE Then(stale, Then(renderStats(data, container, runtime), Reach("Rendered")))

\* A variant of loadDataChecks that validates and never checks the freshness.
loadDataChecksNoFreshness(data, nowUtc, container, runtime) ==
  IF checkDataFreshnessThrows(data) THEN Throw(ReadNullProperty("lastUpdated"))
  ELSE LET validationResult == validateData(data)
       IN  IF ~validationResult.isValid
           THEN Then(Console("warn"),
                     Then(showError("No data available", validationResult.message, container),
                          Reach("Invalid")))
           ELSE Then(renderStats(data, container, runtime), Reach("Rendered"))

\* A variant of loadDataChecks that tests the validity before the freshness.
loadDataChecksValidityFirst(data, nowUtc, container, runtime) ==
  IF checkDataFreshnessThrows(data) THEN Throw(ReadNullProperty("lastUpdated"))
  ELSE LET freshnessCheck == checkDataFreshness(data, nowUtc)
           validationResult == validateData(data)
       IN  IF ~validationResult.isValid
           THEN Then(Console("warn"),
                     Then(showError("No data available", validationResult.message, container),
                          Reach("Invalid")))
           ELSE IF ~freshnessCheck.isFresh
           THEN Then(Console("warn"),
                     Then(showError("Data is outdated", freshnessCheck.message, container),
                          Reach("Stale")))
           ELSE Then(renderStats(data, container, runtime), Reach("Rendered"))

\* The try block from the freshness check on, for the parsed body data.
loadDataChecks(data, nowUtc, container, runtime) ==
  IF checkDataFreshnessThrows(data) THEN Throw(ReadNullProperty("lastUpdated"))
  ELSE LET freshnessCheck == checkDataFreshness(data, nowUtc)
           validationResult == validateData(data)
       IN  IF ~freshnessCheck.isFresh
           THEN Then(Console("warn"),
                     Then(showError("Data is outdated", freshnessCheck.message, container),
                          Reach("Stale")))
           ELSE IF ~validationResult.isValid
           THEN Then(Console("warn"),
                     Then(showError("No data available", validationResult.message, container),
                          Reach("Invalid")))
           ELSE Then(renderStats(data, container, runtime), Reach("Rendered"))

\* loadData once fetch() has settled: r is a rejection or a response.
loadDataOnFetch(r, container) ==
  IF r.kind = "reject" THEN Caught(Throw(r.message), loadDataCatch(r.message, container))
  ELSE IF ~r.ok THEN Caught(Throw(HttpError(r.status)), loadDataCatch(HttpError(r.status), container))
  ELSE Skip

\* loadData once response.json() has settled: b is a SyntaxError or a value.
loadDataOnJson(b, nowUtc, container, runtime) ==
  LET try == IF b.kind = "syntaxError" THEN Throw(b.message)
             ELSE loadDataChecks(b.data, nowUtc, container, runtime)
  IN  IF try.threw THEN Caught(try, loadDataCatch(try.error, container)) ELSE try

\* ------------------------------------------------------------ documents
Doc(lastUpdated, dailyStats, weeklyTrends) ==
  Obj([lastUpdated |-> lastUpdated, dailyStats |-> dailyStats, weeklyTrends |-> weeklyTrends])
Daily(sleep, energy, heartRate, activity, stress) ==
  Obj([sleep |-> sleep, energy |-> energy, heartRate |-> heartRate,
       activity |-> activity, stress |-> stress])
Sleep(score, duration, deepSleep, remSleep) ==
  Obj([score |-> score, duration |-> duration, deepSleep |-> deepSleep, remSleep |-> remSleep])
Energy(score) == Obj([score |-> score])
HeartRate(resting, average) == Obj([resting |-> resting, average |-> average])
Activity(steps, activeMinutes, calories) ==
  Obj([steps |-> steps, activeMinutes |-> activeMinutes, calories |-> calories])
Stress(average) == Obj([average |-> average])
Weekly(sleepScore, energyScore, sleepDuration, restingHR, steps) ==
  Obj([averageSleepScore |-> sleepScore, averageEnergyScore |-> energyScore,
       averageSleepDuration |-> sleepDuration, averageRestingHR |-> restingHR,
       averageSteps |-> steps])

\* The clock when the page loads: 2024-01-03T00:00:00Z.
Now0 == 48 * MsPerHour
Nows == {Now0 + k * TickMs : k \in 0..MaxTicks}

\* 12 hours old at Now0; 48 hours old at Now0; 48.1 hours old at Now0.
Recent == Str("2024-01-02T12:00:00.000Z")
Boundary == Str("2024-01-01T00:00:00.000Z")
Old == Str("2023-12-31T23:54:00.000Z")

FullDaily ==
  Daily(Sleep(Num(85), Num(7992), Num(1500), Num(1999)), Energy(Num(72)),
        HeartRate(Num(58), Num(65)), Activity(Num(12345), Num(45), Num(2100)),
        Stress(Num(40)))
FullWeekly == Weekly(Num(78), Num(70), Num(7250), Num(61), Num(11250))
StressOnly == Daily(Undefined, Undefined, Undefined, Undefined, Stress(Num(40)))
EnergyOnly == Daily(Undefined, Energy(Num(64)), Undefined, Undefined, Undefined)
NoMetrics == Daily(Sleep(Null, Num(7500), Undefined, Undefined), Undefined, Null,
                   Activity(Undefined, Num(30), Undefined), Undefined)

\* The bodies health-data.json parses to in the load cycles of the model.
Bodies ==
  { Null, Num(5),
    Doc(Recent, FullDaily, FullWeekly),
    Doc(Boundary, EnergyOnly, Undefined),
    Doc(Old, FullDaily, FullWeekly),
    Doc(Recent, StressOnly, Undefined),
    Doc(Recent, NoMetrics, FullWeekly),
    Doc(Old, NoMetrics, Undefined),
    Doc(Undefined, NoMetrics, Undefined),
    Doc(Str("not-a-date"), EnergyOnly, Undefined) }

\* How fetch() settles: it rejects, or it resolves to a response.
FetchOutcomes ==
  { [kind |-> "reject", ok |-> FALSE, status |-> 0,
     message |-> Msg("Failed to fetch", <<>>, <<>>)],
    [kind |-> "response", ok |-> FALSE, status |-> 404, message |-> NoError],
    [kind |-> "response", ok |-> TRUE, status |-> 200, message |-> NoError] }

\* How response.json() settles: it rejects with a SyntaxError, or resolves.
JsonOutcomes ==
  { [kind |-> "syntaxError", data |-> Undefined,
     message |-> Msg("Unexpected token '<', \"<!DOCTYPE \"... is not valid JSON", <<>>, <<>>)] }
  \cup { [kind |-> "value", data |-> d, message |-> NoError] : d \in Bodies }

\* The markup of the container before any script has touched it.
InitialView == [view |-> "initial", retry |-> FALSE]

NoProbe ==
  [op |-> "none", data |-> Undefined, nowUtc |-> Now0, hours |-> Undefined, score |-> 0]
NoResult == [done |-> FALSE]

\* How the awaits of a call settled: pending, reject, response (not ok),
\* syntaxError, null (the body is null) or value, with the status of the
\* response and the message of the rejection.
Cause(kind, status, message) == [kind |-> kind, status |-> status, message |-> message]
Pending == Cause("pending", 0, NoError)

\* A call as loadData leaves it at its first await.
NewCall ==
  [pc |-> "fetch", cause |-> Pending, path |-> <<>>, html |-> 0, logs |-> <<>>,
   escaped |-> FALSE]

Init ==
  /\ ready = FALSE
  /\ hasContainer \in BOOLEAN
  /\ innerHTML = InitialView
  /\ styleDisplay = ""
  /\ calls = <<>>
  /\ now = Now0
  /\ lastWriter = 0
  /\ checkedAt = Now0
  /\ checkedBody = Undefined
  /\ probeRuntime = NoRuntime
  /\ probe = NoProbe
  /\ result = NoResult

\* The container after a piece of code with effect e has run, for call c
\* that had parsed body.
Apply(e, c, body) ==
  /\ innerHTML' = IF e.html = <<>> THEN innerHTML ELSE e.html[Len(e.html)]
  /\ styleDisplay' = IF e.style = <<>> THEN styleDisplay ELSE e.style[Len(e.style)]
  /\ lastWriter' = IF e.html = <<>> THEN lastWriter ELSE c
  /\ checkedAt' = IF e.html = <<>> THEN checkedAt ELSE now
  /\ checkedBody' = IF e.html = <<>> THEN checkedBody ELSE body

\* The record of call c once the code with effect e has ended it.
Ended(call, e, cause) ==
  [pc |-> "done", cause |-> cause, path |-> e.path, html |-> Len(e.html),
   logs |-> e.logs, escaped |-> e.threw]

\* document.addEventListener('DOMContentLoaded', ...): the instance is made
\* and loadData() runs to its first await, the fetch.
DOMContentLoaded ==
  /\ ~ready
  /\ ready' = TRUE
  /\ calls' = <<NewCall>>
  /\ UNCHANGED <<hasContainer, innerHTML, styleDisplay, now, lastWriter, checkedAt,
                 checkedBody, probe, result, probeRuntime>>

\* A variant of RetryClick for a page that offers the reload whatever the
\* container holds.
RetryClickAnyView ==
  /\ ready /\ hasContainer
  /\ styleDisplay # "none"
  /\ Len(calls) < MaxLoads
  /\ calls' = Append(calls, NewCall)
  /\ UNCHANGED <<ready, hasContainer, innerHTML, styleDisplay, now, lastWriter,
                 checkedAt, checkedBody, probe, result, probeRuntime>>

\* onclick="window.healthStatsInstance.loadData()" of the Retry button, which
\* is there to click while innerHTML holds it and the container is displayed.
RetryClick ==
  /\ ready /\ hasContainer
  /\ innerHTML.retry /\ styleDisplay # "none"
  /\ Len(calls) < MaxLoads
  /\ calls' = Append(calls, NewCall)
  /\ UNCHANGED <<ready, hasContainer, innerHTML, styleDisplay, now, lastWriter,
                 checkedAt, checkedBody, probe, result, probeRuntime>>

\* await fetch(...) settles for call c.
FetchSettle(c, r) ==
  /\ calls[c].pc = "fetch"
  /\ LET e == loadDataOnFetch(r, hasContainer)
     IN  /\ calls' = [calls EXCEPT ![c] =
                        IF r.kind = "response" /\ r.ok
                        THEN [@ EXCEPT !.pc = "json"]
                        ELSE Ended(@, e, Cause(r.kind, r.status, r.message))]
         /\ Apply(e, c, Undefined)
  /\ UNCHANGED <<ready, hasContainer, now, probe, result, probeRuntime>>

\* The settings the runtime can have while the rest of loadData runs on b:
\* any. Only the template of renderStats reads them, so where the rest of
\* loadData assigns no template it does the same under them all, and one
\* stands for all.
RuntimesRead(b, nowUtc, container) ==
  LET one == CHOOSE runtime \in Runtimes : TRUE
      e == loadDataOnJson(b, nowUtc, container, one)
  IN  IF \E i \in 1..Len(e.html) : e.html[i].view = "stats" THEN Runtimes ELSE {one}

\* await response.json() settles for call c; the rest of loadData runs, in a
\* runtime that has the settings runtime by then.
JsonSettle(c, b) ==
  /\ calls[c].pc = "json"
  /\ \E runtime \in RuntimesRead(b, now, hasContainer) :
       LET e == loadDataOnJson(b, now, hasContainer, runtime)
       IN  /\ calls' = [calls EXCEPT ![c] =
                          Ended(@, e, Cause(IF b.kind = "value" /\ b.data = Null
                                            THEN "null" ELSE b.kind, 200, b.message))]
           /\ Apply(e, c, b.data)
  /\ UNCHANGED <<ready, hasContainer, now, probe, result, probeRuntime>>

\* hideHealthStats() called on window.healthStatsInstance: no handler of the
\* page calls it, the instance is global for the console to reach. It sets
\* style.display of the container to 'none' and leaves the content alone.
HideHealthStats ==
  /\ ready
  /\ LET e == hideHealthStats(hasContainer)
     IN  styleDisplay' = IF e.style = <<>> THEN styleDisplay ELSE e.style[Len(e.style)]
  /\ UNCHANGED <<ready, hasContainer, innerHTML, calls, now, lastWriter, checkedAt,
                 checkedBody, probe, result, probeRuntime>>

\* Time passes.
Tick ==
  /\ now < Now0 + MaxTicks * TickMs
  /\ now' = now + TickMs
  /\ UNCHANGED <<ready, hasContainer, innerHTML, styleDisplay, calls, lastWriter,
                 checkedAt, checkedBody, probe, result, probeRuntime>>

Next ==
  \/ DOMContentLoaded
  \/ RetryClick
  \/ \E c \in 1..Len(calls), r \in FetchOutcomes : FetchSettle(c, r)
  \/ \E c \in 1..Len(calls), b \in JsonOutcomes : JsonSettle(c, b)
  \/ HideHealthStats
  \/ Tick

Spec == Init /\ [][Next]_vars

\* ------------------------------------------------------------ the methods on their own
\* checkDataFreshness, validateData, formatTime and the four label methods
\* are functions of their arguments (and of the clock): here each is applied
\* once to arguments drawn from the sets below. renderStats and
\* hideHealthStats act on the container: renderStats is called up to
\* MaxRenders times on one snapshot, hideHealthStats once.
LastUpdatedValues ==
  { Undefined, Null, Str(""), Str("not-a-date"), Str("2024-13-45T99:00:00Z"),
    Old, Str("2023-12-31T23:59:59.999Z"), Boundary, Str("2024-01-01T00:00:00.001Z"),
    Str("2024-01-01T00:06:00.000Z"), Str("2024-01-01T00:12:00.000Z"), Recent,
    Str("2024-01-03T00:06:00.001Z"), Str("2024-01-04T00:00:00.000Z"),
    Str("2024-01-20T00:00:00.000Z") }

SleepValues ==
  { Undefined, Null, Sleep(Null, Num(7500), Num(1500), Num(2000)),
    Sleep(Num(85), Undefined, Undefined, Undefined),
    Sleep(Num(59), Num(7992), Num(1500), Undefined),
    Sleep(Num(70), Num(7980), Num(1250), Num(1999)) }
EnergyValues == { Undefined, Energy(Null), Energy(Num(72)) }
HeartRateValues == { Undefined, HeartRate(Undefined, Num(65)), HeartRate(Num(58), Undefined) }
ActivityValues == { Undefined, Activity(Null, Num(45), Num(2100)), Activity(Num(12345), Num(0), Undefined) }
StressValues == { Undefined, Stress(Null), Stress(Num(0)), Stress(Num(40)) }
DailyValues ==
  { Undefined, Null }
  \cup { Daily(s, e, h, a, st) : s \in SleepValues, e \in EnergyValues,
          h \in HeartRateValues, a \in ActivityValues, st \in StressValues }
WeeklyValues ==
  { Undefined, FullWeekly, Weekly(Undefined, Num(70), Num(7999), Null, Undefined) }

\* weeklyTrends with every subset of its five averages, one with nulls and
\* zeros, null, and none.
AllWeeklyValues ==
  { Undefined, Null, Weekly(Null, Num(0), Null, Num(0), Num(0)),
    Weekly(Undefined, Undefined, Undefined, Undefined, Num(1234567)) }
  \cup { Weekly(IF 1 \in S THEN Num(78) ELSE Undefined,
                IF 2 \in S THEN Num(70) ELSE Undefined,
                IF 3 \in S THEN Num(7250) ELSE Undefined,
                IF 4 \in S THEN Num(61) ELSE Undefined,
                IF 5 \in S THEN Num(9876) ELSE Undefined) : S \in SUBSET (1..5) }

\* The scores, rates and averages the labels are derived from: the
\* thresholds and their neighbours.
ScoreValues == {0, 24, 25, 26, 49, 50, 51, 58, 59, 60, 61, 69, 70, 71, 74, 75, 76,
                79, 80, 81, 100}
LabelOps == {"getSleepQuality", "getEnergyLevel", "getHeartRateStatus", "getStressLevel"}

\* Thousandths of an hour; 25, 1025, 1575 and 7175 have their sixtieths on a
\* half, which floating point keeps for 25 and 1575 and misses for the others.
HoursValues ==
  { Undefined, Null }
  \cup { Num(n) : n \in {0, 25, 500, 999, 1025, 1500, 1575, 1990, 1992, 1999, 7175, 7250,
                         7980, 7992, 8000} }

Probes ==
  { [op |-> "checkDataFreshness", data |-> d, nowUtc |-> n, hours |-> Undefined, score |-> 0] :
      d \in { Doc(lu, ds, wt) : lu \in LastUpdatedValues,
                                ds \in {Undefined, FullDaily, NoMetrics},
                                wt \in {Undefined, FullWeekly} } \cup {Num(5)},
      n \in Nows }
  \cup { [op |-> "validateData", data |-> d, nowUtc |-> Now0, hours |-> Undefined, score |-> 0] :
      d \in { Doc(lu, ds, Undefined) : lu \in {Undefined, Recent}, ds \in DailyValues }
            \cup {Num(5)} }
  \cup { [op |-> "renderStats", data |-> Doc(Recent, ds, wt), nowUtc |-> Now0, hours |-> Undefined, score |-> 0] :
      ds \in DailyValues, wt \in WeeklyValues }
  \cup { [op |-> "renderStats", data |-> Doc(Recent, ds, wt), nowUtc |-> Now0, hours |-> Undefined, score |-> 0] :
      ds \in {FullDaily, StressOnly}, wt \in AllWeeklyValues }
  \cup { [op |-> "formatTime", data |-> Undefined, nowUtc |-> Now0, hours |-> h, score |-> 0] :
      h \in HoursValues }
  \cup { [op |-> o, data |-> Undefined, nowUtc |-> Now0, hours |-> Undefined, score |-> n] :
      o \in LabelOps, n \in ScoreValues }
  \cup { [op |-> "hideHealthStats", data |-> Undefined, nowUtc |-> Now0, hours |-> Undefined,
          score |-> 0] }

ProbeInit ==
  /\ ready = FALSE
  /\ hasContainer = TRUE
  /\ innerHTML = InitialView
  /\ styleDisplay = ""
  /\ calls = <<>>
  /\ now = Now0
  /\ lastWriter = 0
  /\ checkedAt = Now0
  /\ checkedBody = Undefined
  /\ probeRuntime = NoRuntime
  /\ probe \in Probes
  /\ result = NoResult

Returned(value) ==
  /\ ~result.done
  /\ result' = [done |-> TRUE, value |-> value]
  /\ UNCHANGED <<ready, hasContainer, innerHTML, styleDisplay, calls, now, lastWriter,
                 checkedAt, checkedBody, probe, probeRuntime>>

ProbeCheckDataFreshness ==
  /\ probe.op = "checkDataFreshness"
  /\ Returned(checkDataFreshness(probe.data, probe.nowUtc))

ProbeValidateData ==
  /\ probe.op = "validateData"
  /\ Returned(validateData(probe.data))

ProbeFormatTime ==
  /\ probe.op = "formatTime"
  /\ Returned(formatTime(probe.hours))

\* renderStats(data) called on the instance, once and again on the same
\* snapshot, in a runtime that has the settings runtime at the call: it
\* assigns this.container.innerHTML and returns undefined. lastWriter counts
\* the calls that have assigned innerHTML.
ProbeRenderStats(runtime) ==
  /\ probe.op = "renderStats" /\ lastWriter < MaxRenders
  /\ LET e == renderStats(probe.data, hasContainer, runtime)
     IN  /\ Apply(e, lastWriter + 1, probe.data)
         /\ result' = [done |-> TRUE,
                       value |-> IF e.threw THEN [threw |-> TRUE, error |-> e.error]
                                 ELSE Undefined]
  /\ probeRuntime' = runtime
  /\ UNCHANGED <<ready, hasContainer, calls, now, probe>>

\* hideHealthStats() called on the instance: it sets style.display of the
\* container, when there is one, and returns undefined.
ProbeHideHealthStats ==
  /\ probe.op = "hideHealthStats" /\ ~result.done
  /\ LET e == hideHealthStats(hasContainer)
     IN  /\ Apply(e, 0, Undefined)
         /\ result' = [done |-> TRUE, value |-> Undefined]
  /\ UNCHANGED <<ready, hasContainer, calls, now, probe, probeRuntime>>

ProbeGetSleepQuality ==
  /\ probe.op = "getSleepQuality"
  /\ Returned(getSleepQuality(probe.score))

ProbeGetEnergyLevel ==
  /\ probe.op = "getEnergyLevel"
  /\ Returned(getEnergyLevel(probe.score))

ProbeGetHeartRateStatus ==
  /\ probe.op = "getHeartRateStatus"
  /\ Returned(getHeartRateStatus(probe.score))

ProbeGetStressLevel ==
  /\ probe.op = "getStressLevel"
  /\ Returned(getStressLevel(probe.score))

\* Each method is applied once.
ProbeNext ==
  \/ ProbeCheckDataFreshness
  \/ ProbeValidateData
  \/ ProbeFormatTime
  \/ \E runtime \in Runtimes : ~result.done /\ ProbeRenderStats(runtime)
  \/ ProbeHideHealthStats
  \/ ProbeGetSleepQuality
  \/ ProbeGetEnergyLevel
  \/ ProbeGetHeartRateStatus
  \/ ProbeGetStressLevel

ProbeSpec == ProbeInit /\ [][ProbeNext]_vars

\* ------------------------------------------------------------ renderStats, called again
\* renderStats is called up to MaxRenders times on one valid snapshot while
\* the clock advances; the runtime has the same settings at a call as at
\* the call before, or others.
\* The snapshots have every daily metric, steps of five digits among them,
\* and every choice of weekly averages.
RenderProbes ==
  { p \in Probes : /\ p.op = "renderStats"
                   /\ OptGet(p.data, "dailyStats") = FullDaily
                   /\ validateData(p.data).isValid }

RenderInit ==
  /\ ProbeInit
  /\ probe \in RenderProbes

RenderNext ==
  \/ \E runtime \in Runtimes : ProbeRenderStats(runtime)
  \/ Tick

RenderSpec == RenderInit /\ [][RenderNext]_vars

\* ------------------------------------------------------------ properties
Done(c) == calls[c].pc = "done"
CallIds == 1..Len(calls)
Range(seq) == {seq[i] : i \in 1..Len(seq)}
TerminalStates == {"Rendered", "Stale", "Invalid", "LoadFailure"}

\* The terminal state whose presentation the container shows.
DisplayedState ==
  IF innerHTML.view = "stats" THEN "Rendered"
  ELSE IF innerHTML.view = "initial" THEN "Idle"
  ELSE IF innerHTML.title = "Data is outdated" THEN "Stale"
  ELSE IF innerHTML.title = "No data available" THEN "Invalid"
  ELSE "LoadFailure"

\* C1: when load cycles overlap, the response of an earlier-issued cycle that
\* settles after a later-issued one is ignored: once every fetch has settled,
\* the container shows the state the latest-issued loadData call ended in.
C1_LatestCycleDisplayed ==
  (hasContainer /\ calls # <<>> /\ \A c \in CallIds : Done(c))
    => DisplayedState = calls[Len(calls)].path[1]

\* Whether dailyStats[group][field] is there (neither null nor undefined).
Present(data, group, field) ==
  ~IsNullish(OptGet(OptGet(OptGet(data, "dailyStats"), group), field))
AnyOfFive(data) ==
  \/ Present(data, "sleep", "score")
  \/ Present(data, "heartRate", "resting")
  \/ Present(data, "activity", "steps")
  \/ Present(data, "energy", "score")
  \/ Present(data, "stress", "average")

\* C2: validateData returns valid iff at least one of sleep.score,
\* heartRate.resting, activity.steps, energy.score and stress.average is
\* non-null; a document whose only metric is stress.average = 40 is valid and
\* its available groups are exactly the stress group.
C2_ValidIffAnyOfFive ==
  (probe.op = "validateData" /\ result.done)
    => /\ result.value.isValid = AnyOfFive(probe.data)
       /\ (OptGet(probe.data, "dailyStats") = StressOnly
             => result.value.isValid /\ result.value.availableData = <<"stress">>)

\* C3: every loadData call whose awaits have settled has reached exactly one
\* of Rendered, Stale, Invalid and LoadFailure and has assigned innerHTML at
\* most once; a call that has not ended has reached none and assigned nothing.
C3_OneTerminalStateOneWrite ==
  \A c \in CallIds :
    /\ Done(c) => /\ Len(calls[c].path) = 1
                  /\ calls[c].path[1] \in TerminalStates
                  /\ calls[c].html <= 1
    /\ ~Done(c) => calls[c].path = <<>> /\ calls[c].html = 0

\* A call has ended in Rendered with its one assignment, after an earlier call.
C3_Witness ==
  \E c \in CallIds :
    c > 1 /\ Done(c) /\ calls[c].path = <<"Rendered">> /\ calls[c].html = 1

\* C4: whenever the container shows the rendered card, the document it was
\* rendered from passed both gates in that load cycle: its lastUpdated was at
\* most 48 hours before the clock at the check, and validateData found it valid.
C4_RenderedOnlyAfterBothGates ==
  innerHTML.view = "stats"
    => /\ checkedBody.t = "object"
       /\ OptGet(checkedBody, "lastUpdated").t = "string"
       /\ ~DateParse(OptGet(checkedBody, "lastUpdated").s).nan
       /\ checkedAt - DateParse(OptGet(checkedBody, "lastUpdated").s).ms <= 48 * 3600000
       /\ checkDataFreshness(checkedBody, checkedAt).isFresh
       /\ validateData(checkedBody).isValid
       /\ \E runtime \in Runtimes : innerHTML = renderTemplate(checkedBody, runtime)

\* The card is shown for a document that was exactly 48 hours old at the
\* check, and the clock has moved on since.
C4_Witness ==
  /\ innerHTML.view = "stats"
  /\ checkedBody = Doc(Boundary, EnergyOnly, Undefined)
  /\ now > checkedAt

\* The age in milliseconds of the probe's lastUpdated at the probe's clock.
ProbeLastUpdated == OptGet(probe.data, "lastUpdated")
ProbeAge == probe.nowUtc - DateParse(ProbeLastUpdated.s).ms
FreshnessProbed == probe.op = "checkDataFreshness" /\ result.done

\* C5: for a parseable lastUpdated, checkDataFreshness returns fresh iff the
\* age is at most 48 hours: 47.9 hours is fresh, exactly 48.0 hours is fresh,
\* 48.1 hours is not.
C5_FreshIffAtMost48Hours ==
  (/\ FreshnessProbed
   /\ ProbeLastUpdated.t = "string"
   /\ ~DateParse(ProbeLastUpdated.s).nan)
    => /\ result.value.isFresh <=> (ProbeAge <= 48 * 3600000)
       /\ ProbeAge = 172440000 => result.value.isFresh
       /\ ProbeAge = 172800000 => result.value.isFresh
       /\ ProbeAge = 173160000 => ~result.value.isFresh

\* checkDataFreshness has answered for an age of exactly 48 hours.
C5_Witness ==
  /\ FreshnessProbed
  /\ ProbeLastUpdated = Boundary
  /\ ProbeAge = 172800000
  /\ result.value.isFresh

\* C6: checkDataFreshness fails closed: without a lastUpdated it returns not
\* fresh with the message "No timestamp found in data" whatever else the
\* document holds, and for a lastUpdated that is no date it returns not fresh
\* with a message that includes the raw string.
C6_FailsClosed ==
  FreshnessProbed
    => /\ IsNullish(ProbeLastUpdated)
            => /\ ~result.value.isFresh
               /\ result.value.message.fmt = "No timestamp found in data"
       /\ (ProbeLastUpdated.t = "string" /\ DateParse(ProbeLastUpdated.s).nan)
            => /\ ~result.value.isFresh
               /\ \/ ProbeLastUpdated.s = ""
                  \/ ProbeLastUpdated.s \in Range(result.value.message.strs)

\* checkDataFreshness has answered for a document with all its metrics and a
\* lastUpdated that is no date.
C6_Witness ==
  /\ FreshnessProbed
  /\ probe.data = Doc(Str("not-a-date"), FullDaily, FullWeekly)
  /\ ~result.value.isFresh

\* C7: a load whose fetch rejects, whose response is not ok or whose body
\* fails to parse ends in LoadFailure, and what it shows is the "Failed to
\* load" presentation with the message of the underlying error.
C7_TransportFailureIsLoadFailure ==
  \A c \in CallIds :
    (Done(c) /\ calls[c].cause.kind \in {"reject", "response", "syntaxError"})
      => /\ calls[c].path = <<"LoadFailure">>
         /\ hasContainer => calls[c].html = 1
         /\ lastWriter = c
              => /\ innerHTML.view = "error"
                 /\ innerHTML.title = "Failed to load"
                 /\ innerHTML.message =
                      IF calls[c].cause.kind = "response"
                      THEN Msg("HTTP ${response.status}: Failed to load health data",
                               <<>>, <<calls[c].cause.status>>)
                      ELSE calls[c].cause.message

\* A call whose body failed to parse has ended and its presentation is shown.
C7_Witness ==
  \E c \in CallIds :
    Done(c) /\ calls[c].cause.kind = "syntaxError" /\ lastWriter = c

\* C8: no exception escapes loadData: a call in which an exception was
\* raised (the catch block logged it), such as one whose body parsed to null
\* or whose rendering failed, ends in LoadFailure with its presentation.
C8_NoExceptionEscapes ==
  \A c \in CallIds :
    Done(c)
      => /\ ~calls[c].escaped
         /\ "error" \in Range(calls[c].logs) => calls[c].path = <<"LoadFailure">>
         /\ ~hasContainer => calls[c].path # <<"Rendered">>
         /\ calls[c].cause.kind = "null"
              => /\ calls[c].path = <<"LoadFailure">>
                 /\ lastWriter = c
                      => innerHTML = ErrorView("Failed to load", ReadNullProperty("lastUpdated"))

\* A call whose body parsed to null has ended on a page without the container.
C8_Witness ==
  \E c \in CallIds :
    ~hasContainer /\ Done(c) /\ calls[c].cause.kind = "null"

\* C9: at most one load is outstanding at any time: no loadData call starts
\* while the fetch of an earlier call is unsettled.
C9_OneOutstandingLoad ==
  Cardinality({c \in CallIds : calls[c].pc = "fetch"}) <= 1

\* C10: for a non-negative number of hours formatTime gives whole hours and
\* minutes in 0..59, carrying minutes that round to 60 into the next hour:
\* 1.999 gives 2h 0m.
C10_MinutesBelowSixty ==
  (probe.op = "formatTime" /\ result.done /\ probe.hours.t = "number" /\ probe.hours.n >= 0)
    => /\ ~result.value.nan
       /\ result.value.m \in 0..59
       /\ probe.hours.n = 1999 => result.value.h = 2 /\ result.value.m = 0

\* renderStats has been called on the probe's snapshot: the container holds
\* what it assigned.
RenderProbed == probe.op = "renderStats" /\ result.done /\ lastWriter >= 1
ProbeGroup(group) == OptGet(OptGet(probe.data, "dailyStats"), group)
ProbeWeekly == OptGet(probe.data, "weeklyTrends")

\* C11: renderStats guards every optional field on its own: the output holds
\* no text derived from an absent field; a sleep group with a score and no
\* duration gives a sleep card without a duration string.
C11_NoTextFromAbsentField ==
  RenderProbed
    => /\ (innerHTML.sleep.shown /\ IsNullish(OptGet(ProbeGroup("sleep"), "duration")))
            => innerHTML.sleep.v.duration = Omitted
       /\ (innerHTML.sleep.shown
             /\ (IsNullish(OptGet(ProbeGroup("sleep"), "deepSleep"))
                  \/ IsNullish(OptGet(ProbeGroup("sleep"), "remSleep"))))
            => innerHTML.sleep.v.detail = Omitted
       /\ (innerHTML.heartRate.shown /\ IsNullish(OptGet(ProbeGroup("heartRate"), "average")))
            => innerHTML.heartRate.v.average = Omitted
       /\ (innerHTML.activity.shown
             /\ IsNullish(OptGet(ProbeGroup("activity"), "activeMinutes")))
            => innerHTML.activity.v.activeMinutes = Omitted
       /\ (innerHTML.activity.shown /\ IsNullish(OptGet(ProbeGroup("activity"), "calories")))
            => innerHTML.activity.v.calories = Omitted

\* One of the four label functions has been applied to the probe's score.
LabelProbed == probe.op \in LabelOps /\ result.done

\* C12: the colour tiers map to the labels the same way for sleep, energy,
\* heart rate and stress: a label reading Good is blue (#3b82f6) and a label
\* reading Fair or Moderate is amber (#f59e0b), whatever the metric.
C12_SameColourForSameLabel ==
  LabelProbed
    => /\ result.value.text = "Good" => result.value.color = "#3b82f6"
       /\ result.value.text \in {"Fair", "Moderate"} => result.value.color = "#f59e0b"

\* C13: getHeartRateStatus gives Athletic below 60, Excellent from 60 to 70,
\* Good above 70 up to 80 and Above Average above 80: 58 Athletic, 60 and 70
\* Excellent, 71 and 80 Good, 81 Above Average.
C13_HeartRateThresholds ==
  (probe.op = "getHeartRateStatus" /\ result.done)
    => /\ result.value.text =
            IF probe.score < 60 THEN "Athletic"
            ELSE IF probe.score <= 70 THEN "Excellent"
            ELSE IF probe.score <= 80 THEN "Good"
            ELSE "Above Average"
       /\ probe.score = 58 => result.value.text = "Athletic"
       /\ probe.score \in {60, 70} => result.value.text = "Excellent"
       /\ probe.score \in {71, 80} => result.value.text = "Good"
       /\ probe.score = 81 => result.value.text = "Above Average"

\* getHeartRateStatus has answered Excellent for 60.
C13_Witness ==
  /\ probe.op = "getHeartRateStatus" /\ result.done
  /\ probe.score = 60
  /\ result.value.text = "Excellent"

\* C14: getSleepQuality and getEnergyLevel give Excellent / High Energy from
\* 80, Good / Good from 70 to 79, Fair / Moderate from 60 to 69 and Poor / Low
\* below 60.
C14_ScoreThresholds ==
  /\ (probe.op = "getSleepQuality" /\ result.done)
       => result.value.text =
            IF probe.score >= 80 THEN "Excellent"
            ELSE IF probe.score \in 70..79 THEN "Good"
            ELSE IF probe.score \in 60..69 THEN "Fair"
            ELSE "Poor"
  /\ (probe.op = "getEnergyLevel" /\ result.done)
       => result.value.text =
            IF probe.score >= 80 THEN "High Energy"
            ELSE IF probe.score \in 70..79 THEN "Good"
            ELSE IF probe.score \in 60..69 THEN "Moderate"
            ELSE "Low"

\* getSleepQuality has answered Good for 70.
C14_Witness ==
  /\ probe.op = "getSleepQuality" /\ result.done
  /\ probe.score = 70
  /\ result.value.text = "Good"

\* C15: getStressLevel gives Very Low up to 25, Low above 25 up to 50,
\* Moderate above 50 up to 75 and High above 75.
C15_StressThresholds ==
  (probe.op = "getStressLevel" /\ result.done)
    => result.value.text =
         IF probe.score <= 25 THEN "Very Low"
         ELSE IF probe.score \in 26..50 THEN "Low"
         ELSE IF probe.score \in 51..75 THEN "Moderate"
         ELSE "High"

\* getStressLevel has answered Low for 50.
C15_Witness ==
  /\ probe.op = "getStressLevel" /\ result.done
  /\ probe.score = 50
  /\ result.value.text = "Low"

TrendKeys == {"averageSleepScore", "averageEnergyScore", "averageSleepDuration",
              "averageRestingHR", "averageSteps"}

\* C16: renderStats emits the weekly block iff weeklyTrends is present, and
\* in it each of the five averages iff that average is non-null, whatever the
\* other four are.
C16_WeeklyTrendsGated ==
  RenderProbed
    => /\ innerHTML.trends.shown <=> ~IsNullish(ProbeWeekly)
       /\ innerHTML.trends.shown
            => \A key \in TrendKeys :
                 innerHTML.trends.v[key].shown <=> ~IsNullish(OptGet(ProbeWeekly, key))

\* renderStats has rendered a weeklyTrends holding two of the five averages.
C16_Witness ==
  /\ RenderProbed
  /\ ProbeWeekly = Weekly(Undefined, Num(70), Undefined, Undefined, Num(9876))
  /\ innerHTML.trends.shown
  /\ innerHTML.trends.v.averageEnergyScore.shown
  /\ ~innerHTML.trends.v.averageSleepScore.shown

Cards == { <<"sleep", "score">>, <<"energy", "score">>, <<"heartRate", "resting">>,
           <<"activity", "steps">>, <<"stress", "average">> }

\* C17: renderStats emits the card of a group iff the gating field of the
\* group is non-null; for a snapshot whose only metric is stress.average and
\* that has no weeklyTrends it emits the stress card and nothing else.
C17_CardIffGatingField ==
  RenderProbed
    => /\ \A card \in Cards :
            innerHTML[card[1]].shown <=> Present(probe.data, card[1], card[2])
       /\ (OptGet(probe.data, "dailyStats") = StressOnly /\ ProbeWeekly = Undefined)
            => /\ innerHTML.stress.shown
               /\ innerHTML.stress.v.value = Num(40)
               /\ ~innerHTML.sleep.shown /\ ~innerHTML.energy.shown
               /\ ~innerHTML.heartRate.shown /\ ~innerHTML.activity.shown
               /\ ~innerHTML.trends.shown

\* renderStats has rendered the snapshot whose only metric is stress.average.
C17_Witness ==
  /\ RenderProbed
  /\ probe.data = Doc(Recent, StressOnly, Undefined)
  /\ innerHTML.stress.shown

\* The loadData calls that ended in Stale or in Invalid and whose
\* presentation the container holds.
ShowsNotice(c) ==
  /\ hasContainer /\ Done(c) /\ lastWriter = c
  /\ calls[c].path[1] \in {"Stale", "Invalid"}

\* C18: Stale and Invalid are never logged or surfaced as errors: a call
\* that ends in one of them logs no error and shows a notice that is not the
\* error presentation LoadFailure uses.
C18_StaleInvalidNotErrors ==
  \A c \in CallIds :
    /\ (Done(c) /\ calls[c].path[1] \in {"Stale", "Invalid"})
         => "error" \notin Range(calls[c].logs)
    /\ ShowsNotice(c) => innerHTML.view # "error"

\* C19 as stated: whenever a load finds the data stale or missing, the
\* container is hidden (display none) after the load.
C19_HiddenWhenStaleOrMissing ==
  \A c \in CallIds : ShowsNotice(c) => styleDisplay = "none"

\* C19 as amended: whenever a load finds the data stale or missing,
\* loadData leaves the container displayed (display block) as the load
\* completes, also when it was hidden before, showing the notice of that
\* state, "Data is outdated" or "No data available", with the Retry button.
C19_NoticeShownWhenStaleOrMissing ==
  [][\A c \in CallIds :
       (/\ hasContainer
        /\ ~Done(c) /\ calls'[c].pc = "done"
        /\ calls'[c].path # <<>>
        /\ calls'[c].path[1] \in {"Stale", "Invalid"})
         => /\ styleDisplay' = "block"
            /\ lastWriter' = c
            /\ innerHTML'.view = "error"
            /\ innerHTML'.retry
            /\ innerHTML'.title = IF calls'[c].path[1] = "Stale"
                                   THEN "Data is outdated" ELSE "No data available"]_vars

\* A call has found the data stale and its notice is in the container,
\* which is displayed.
C19_Witness ==
  \E c \in CallIds :
    /\ ShowsNotice(c) /\ calls[c].path = <<"Stale">>
    /\ styleDisplay = "block"

\* C20: LoadFailure is recoverable by Retry: when the page load ended in
\* LoadFailure and the one Retry after it fetched a fresh document with at
\* least one of the five metrics, that retry ends in Rendered.
C20_RetryRecovers ==
  (/\ Len(calls) = 2
   /\ calls[1].path = <<"LoadFailure">>
   /\ Done(2) /\ lastWriter = 2
   /\ calls[2].cause.kind = "value"
   /\ checkedBody.t = "object"
   /\ checkDataFreshness(checkedBody, checkedAt).isFresh
   /\ AnyOfFive(checkedBody))
    => calls[2].path = <<"Rendered">> /\ innerHTML.view = "stats"

\* C21: a lastUpdated in the future counts as fresh whatever the skew, a
\* millisecond or seventeen days: checkDataFreshness has no lower bound on
\* the age, and its message gives the (non-positive) rounded hours.
C21_FutureTimestampFresh ==
  (/\ FreshnessProbed
   /\ ProbeLastUpdated.t = "string"
   /\ ~DateParse(ProbeLastUpdated.s).nan
   /\ ProbeAge < 0)
    => /\ result.value.isFresh
       /\ result.value.message.fmt = "Data is ${Math.round(hoursSinceUpdate)} hours old"
       /\ result.value.hoursSinceUpdate.t = "number"
       /\ result.value.hoursSinceUpdate.n <= 0

\* checkDataFreshness has answered fresh for a timestamp 408 hours ahead.
C21_Witness ==
  /\ FreshnessProbed
  /\ ProbeLastUpdated = Str("2024-01-20T00:00:00.000Z")
  /\ probe.nowUtc = Now0
  /\ result.value.isFresh
  /\ result.value.hoursSinceUpdate = Num(0 - 408)

\* A step in which renderStats is called again on the snapshot that the
\* container shows.
CalledAgain ==
  /\ probe.op = "renderStats"
  /\ lastWriter >= 1
  /\ lastWriter' = lastWriter + 1

NotFreshAt(body, at) ==
  LET lastUpdated == OptGet(body, "lastUpdated")
  IN  \/ IsFalsy(lastUpdated)
      \/ lastUpdated.t # "string"
      \/ DateParse(lastUpdated.s).nan
      \/ at - DateParse(lastUpdated.s).ms > 48 * 3600000

\* The container shows what call c wrote after it had parsed a body that
\* was not fresh.
ShowsNotFresh(c) ==
  /\ hasContainer /\ Done(c) /\ lastWriter = c
  /\ calls[c].cause.kind = "value"
  /\ NotFreshAt(checkedBody, checkedAt)

\* C23: loadData checks the freshness before the validity: a document that
\* is not fresh ends in "Data is outdated", never in "No data available",
\* with or without metrics, and what is shown and logged depends on the
\* freshness check alone.
C23_FreshnessBeforeValidity ==
  \A c \in CallIds :
    ShowsNotFresh(c)
      => /\ calls[c].path = <<"Stale">>
         /\ calls[c].logs = <<"warn">>
         /\ innerHTML = ErrorView("Data is outdated",
                                   checkDataFreshness(checkedBody, checkedAt).message)

\* A call has ended in "Data is outdated" for a document that has neither a
\* timestamp nor a metric.
C23_Witness ==
  \E c \in CallIds :
    /\ ShowsNotFresh(c)
    /\ checkedBody = Doc(Undefined, NoMetrics, Undefined)
    /\ ~validateData(checkedBody).isValid
    /\ calls[c].path = <<"Stale">>

\* The name validateData gives a group in availableData, and the card of
\* the group in the template of renderStats.
ReportedGroups == { <<"sleep", "sleep">>, <<"heart rate", "heartRate">>,
                    <<"activity", "activity">>, <<"energy", "energy">> }

\* C24: every group validateData reports in availableData has its card in
\* what renderStats emits for the same document, so a document validateData
\* finds valid is rendered with at least one metric card.
C24_ReportedGroupsRendered ==
  RenderProbed
    => /\ \A g \in ReportedGroups :
            g[1] \in Range(validateData(probe.data).availableData)
              => innerHTML[g[2]].shown
       /\ validateData(probe.data).isValid
            => \E g \in ReportedGroups : innerHTML[g[2]].shown

\* renderStats has rendered a document in which validateData reports the
\* heart rate and the energy groups and no other.
C24_Witness ==
  /\ RenderProbed
  /\ validateData(probe.data).availableData = <<"heart rate", "energy">>
  /\ innerHTML.heartRate.shown /\ innerHTML.energy.shown
  /\ ~innerHTML.sleep.shown /\ ~innerHTML.activity.shown

\* The rendered card is displayed and no loadData call is in flight.
RenderedAtRest ==
  /\ innerHTML.view = "stats"
  /\ calls # <<>>
  /\ \A c \in CallIds : Done(c)

\* C25: the Retry button is in each of the three notices (outdated, no
\* data, failed to load) and not in the rendered card; once the rendered card
\* is in the container with no load in flight, no loadData call is started
\* any more and the state the container displays never changes.
C25_RenderedIsFinal ==
  /\ [](innerHTML.view = "error"
          => /\ innerHTML.retry
             /\ DisplayedState \in {"Stale", "Invalid", "LoadFailure"})
  /\ [](innerHTML.view = "stats" => ~innerHTML.retry)
  /\ [][RenderedAtRest
          => /\ calls' = calls
             /\ innerHTML' = innerHTML
             /\ lastWriter' = lastWriter]_vars

\* The rendered card is displayed at rest, after a retry, while the page
\* could still issue a loadData call.
C25_Witness ==
  /\ RenderedAtRest
  /\ Len(calls) = 2 /\ Len(calls) < MaxLoads
  /\ lastWriter = 2
  /\ now < Now0 + MaxTicks * TickMs

\* C26: on a page without the health-stats-card element every loadData call
\* ends without an exception reaching its caller and without a change to
\* what is displayed, whether the fetch fails or the document is stale,
\* invalid or fit to render.
C26_NoContainerNoEffect ==
  ~hasContainer
    => /\ innerHTML = InitialView
       /\ styleDisplay = ""
       /\ lastWriter = 0
       /\ \A c \in CallIds :
            /\ ~calls[c].escaped
            /\ calls[c].html = 0
            /\ Done(c) => Len(calls[c].path) = 1 /\ calls[c].path[1] \in TerminalStates

\* On a page without the element a call has parsed a document that passed
\* both checks: renderStats threw on the null container and the catch of
\* loadData handled it.
C26_Witness ==
  /\ ~hasContainer
  /\ calls # <<>>
  /\ Done(1)
  /\ calls[1].cause.kind = "value"
  /\ calls[1].path = <<"LoadFailure">>
  /\ calls[1].logs = <<"error">>
  /\ ~calls[1].escaped
====
